---- MODULE Spec2Model ----
(***************************************************************************)
(* Fee-and-royalty settlement of the renaiss_block / rb_contracts programs *)
(* (Anchor programs on a ledger with atomic transactions).                 *)
(*                                                                         *)
(* Amounts are Rust u64 / u128 values.  They are represented here as       *)
(* little-endian sequences of base-256 limbs (8 limbs = u64, 16 limbs =    *)
(* u128) so that widening, truncation (`as u64`) and saturation are        *)
(* computed at the width the code uses.                                    *)
(***************************************************************************)
EXTENDS Integers, Sequences, FiniteSets, TLC

VARIABLES
    bal,        \* committed ledger: lamports of every account
    supply,     \* committed ledger: token units held by the buyer's token account
    events,     \* committed ledger: completion events visible to indexers
    pc,         \* position of the instruction being executed ("idle" between requests)
    op,         \* instruction of the request in flight / last request
    req,        \* arguments and accounts of the request
    wbal,       \* lamports as seen inside the running transaction
    wsupply,    \* token units as seen inside the running transaction
    wevents,    \* events emitted inside the running transaction
    idx,        \* loop index of `for (i, creator_split) in creator_splits.iter().enumerate()`
    err,        \* error kind raised by the request ("none" while none was raised)
    result,     \* what the handler returned: "none" (running), "Ok" or "Err"
    log,        \* cross-program invocations issued by the request, in order
    nreq,       \* number of requests submitted so far
    royalty,    \* committed ledger: the RoyaltyAccount at every royalty-account address
    wroyalty,   \* royalty accounts as seen inside the running transaction
    arg,        \* input of the pure function under check (pure specifications)
    ret,        \* its output
    applied     \* whether the pure function has been applied to arg

vars == <<bal, supply, events, pc, op, req, wbal, wsupply, wevents, idx, err,
          result, log, nreq, royalty, wroyalty, arg, ret, applied>>

txvars == <<bal, supply, events, pc, op, req, wbal, wsupply, wevents, idx, err,
            result, log, nreq, royalty, wroyalty>>

-----------------------------------------------------------------------------
(* Fixed-width unsigned integers                                           *)

LimbBase == 256
U64Limbs == 8
U128Limbs == 16

RECURSIVE Zeros(_)
Zeros(k) == IF k = 0 THEN <<>> ELSE <<0>> \o Zeros(k - 1)

\* the k-limb value of the natural n (n modulo 256^k)
RECURSIVE FromInt(_, _)
FromInt(n, k) == IF k = 0 THEN <<>> ELSE <<n % LimbBase>> \o FromInt(n \div LimbBase, k - 1)

\* the natural a limb sequence stands for (defined while it fits TLC's integers)
RECURSIVE ToInt(_)
ToInt(w) ==
    IF w = <<>> THEN 0
    ELSE IF \A j \in 1..Len(w) : w[j] = 0 THEN 0
    ELSE Head(w) + LimbBase * ToInt(Tail(w))

U64(n) == FromInt(n, U64Limbs)

Rev(s) == [j \in 1..Len(s) |-> s[Len(s) + 1 - j]]

\* `x as u128` of a u64
AsU128(w) == w \o Zeros(U128Limbs - Len(w))

\* `x as u64` of a u128: the low 64 bits
AsU64(w) == SubSeq(w, 1, U64Limbs)

IsZero(w) == \A j \in 1..Len(w) : w[j] = 0

\* w * m at the width of w (m < 2^16), the carry out of the top limb dropped
RECURSIVE MulCarry(_, _, _)
MulCarry(w, m, c) ==
    IF w = <<>> THEN <<>>
    ELSE LET t == Head(w) * m + c
         IN  <<t % LimbBase>> \o MulCarry(Tail(w), m, t \div LimbBase)

MulSmall(w, m) == MulCarry(w, m, 0)

\* floor(w / d) at the width of w (0 < d < 2^16); ws is w most significant limb first
RECURSIVE DivRem(_, _, _)
DivRem(ws, d, r) ==
    IF ws = <<>> THEN <<>>
    ELSE LET t == r * LimbBase + Head(ws)
         IN  <<t \div d>> \o DivRem(Tail(ws), d, t % d)

DivSmall(w, d) == Rev(DivRem(Rev(w), d, 0))

\* a <= b for two values of the same width
RECURSIVE LeqRev(_, _)
LeqRev(as, bs) ==
    IF as = <<>> THEN TRUE
    ELSE IF Head(as) < Head(bs) THEN TRUE
    ELSE IF Head(as) > Head(bs) THEN FALSE
    ELSE LeqRev(Tail(as), Tail(bs))

Leq(a, b) == LeqRev(Rev(a), Rev(b))

\* a + b at the width of a, the carry out of the top limb dropped
RECURSIVE AddCarry(_, _, _)
AddCarry(a, b, c) ==
    IF a = <<>> THEN <<>>
    ELSE LET t == Head(a) + Head(b) + c
         IN  <<t % LimbBase>> \o AddCarry(Tail(a), Tail(b), t \div LimbBase)

Add(a, b) == AddCarry(a, b, 0)

\* a - b at the width of a, modulo 256^Len(a)
RECURSIVE SubBorrow(_, _, _)
SubBorrow(a, b, c) ==
    IF a = <<>> THEN <<>>
    ELSE LET t == Head(a) - Head(b) - c
         IN  <<t % LimbBase>> \o SubBorrow(Tail(a), Tail(b), IF t < 0 THEN 1 ELSE 0)

Sub(a, b) == SubBorrow(a, b, 0)

\* u64::saturating_sub
saturating_sub(a, b) == IF Leq(b, a) THEN Sub(a, b) ELSE Zeros(Len(a))

-----------------------------------------------------------------------------
(* math::split_fee                                                         *)

BPS_DENOMINATOR == 10000

\* split_fee rounding the fee to the nearest unit instead of flooring
split_fee_u64_Nearest(gross_cents, fee_bps) ==
    LET fee128 == DivSmall(Add(MulSmall(AsU128(gross_cents), fee_bps),
                               FromInt(BPS_DENOMINATOR \div 2, U128Limbs)), BPS_DENOMINATOR)
        fee    == AsU64(fee128)
        net    == saturating_sub(gross_cents, fee)
    IN  <<fee, net>>

\* split_fee with a wrapping subtraction instead of saturating_sub
split_fee_u64_Wrapping(gross_cents, fee_bps) ==
    LET fee128 == DivSmall(MulSmall(AsU128(gross_cents), fee_bps), BPS_DENOMINATOR)
        fee    == AsU64(fee128)
        net    == Sub(gross_cents, fee)
    IN  <<fee, net>>

\* split_fee on u64 limbs: (fee, net)
split_fee_u64(gross_cents, fee_bps) ==
    LET fee128 == DivSmall(MulSmall(AsU128(gross_cents), fee_bps), BPS_DENOMINATOR)
        fee    == AsU64(fee128)
        net    == saturating_sub(gross_cents, fee)
    IN  <<fee, net>>

\* split_fee on naturals that fit TLC's integers
split_fee(gross_cents, fee_bps) ==
    LET r == split_fee_u64(U64(gross_cents), fee_bps)
    IN  <<ToInt(r[1]), ToInt(r[2])>>

-----------------------------------------------------------------------------
(* Keys                                                                    *)

PLATFORM_WALLET == "DawrJxixCJ2zbTCn83YRB5kZJC6zM6N36FYqGZUzNHDA"
Buyer == "buyer"
Stranger == "stranger"
CreatorNames == <<"creator1", "creator2", "creator3", "creator4", "creator5", "creator6",
                  "creator7", "creator8", "creator9", "creator10", "creator11", "creator12">>

\* CreatorSplitData { creator_pubkey, percentage }
CreatorSplitData(k, p) == [creator_pubkey |-> k, percentage |-> p]

\* the share list with the given percentages, position j naming the j-th creator
Splits(pcts) == [j \in 1..Len(pcts) |-> CreatorSplitData(CreatorNames[j], pcts[j])]

Percentages(creator_splits) == [j \in 1..Len(creator_splits) |-> creator_splits[j].percentage]

-----------------------------------------------------------------------------
(* Schedule validation of mint_collaborative_nft                           *)

MAX_CREATORS == 10
TOTAL_PERCENTAGE == 100
U16Modulus == 65536

RECURSIVE SumSeq(_)
SumSeq(s) == IF s = <<>> THEN 0 ELSE Head(s) + SumSeq(Tail(s))

\* creator_splits.iter().map(|c| c.percentage as u16).sum()
total_percentage(creator_splits) == SumSeq(Percentages(creator_splits)) % U16Modulus

\* ValidateSplits with the count bound taken strictly (len < 10)
ValidateSplits_StrictCount(creator_splits) ==
    IF ~(Len(creator_splits) < MAX_CREATORS) THEN "TooManyCreators"
    ELSE IF creator_splits = <<>> THEN "NoCreators"
    ELSE IF ~(total_percentage(creator_splits) = TOTAL_PERCENTAGE) THEN "InvalidSplitPercentage"
    ELSE IF \E j \in 1..Len(creator_splits) :
                ~(creator_splits[j].percentage > 0 /\ creator_splits[j].percentage < 100)
         THEN "InvalidCreatorPercentage"
    ELSE "Ok"

\* ValidateSplits with the per-share bound taken inclusively (percentage <= 100)
ValidateSplits_InclusivePct(creator_splits) ==
    IF ~(Len(creator_splits) <= MAX_CREATORS) THEN "TooManyCreators"
    ELSE IF creator_splits = <<>> THEN "NoCreators"
    ELSE IF ~(total_percentage(creator_splits) = TOTAL_PERCENTAGE) THEN "InvalidSplitPercentage"
    ELSE IF \E j \in 1..Len(creator_splits) :
                ~(creator_splits[j].percentage > 0 /\ creator_splits[j].percentage <= 100)
         THEN "InvalidCreatorPercentage"
    ELSE "Ok"

\* ValidateSplits with the per-share check made before the sum check
ValidateSplits_PctFirst(creator_splits) ==
    IF ~(Len(creator_splits) <= MAX_CREATORS) THEN "TooManyCreators"
    ELSE IF creator_splits = <<>> THEN "NoCreators"
    ELSE IF \E j \in 1..Len(creator_splits) :
                ~(creator_splits[j].percentage > 0 /\ creator_splits[j].percentage < 100)
         THEN "InvalidCreatorPercentage"
    ELSE IF ~(total_percentage(creator_splits) = TOTAL_PERCENTAGE) THEN "InvalidSplitPercentage"
    ELSE "Ok"

\* ValidateSplits with the count checks made after the percentage checks
ValidateSplits_CountLast(creator_splits) ==
    IF ~(total_percentage(creator_splits) = TOTAL_PERCENTAGE) THEN "InvalidSplitPercentage"
    ELSE IF \E j \in 1..Len(creator_splits) :
                ~(creator_splits[j].percentage > 0 /\ creator_splits[j].percentage < 100)
         THEN "InvalidCreatorPercentage"
    ELSE IF ~(Len(creator_splits) <= MAX_CREATORS) THEN "TooManyCreators"
    ELSE IF creator_splits = <<>> THEN "NoCreators"
    ELSE "Ok"

\* the require! sequence at the head of mint_collaborative_nft: "Ok" or the error kind
ValidateSplits(creator_splits) ==
    IF ~(Len(creator_splits) <= MAX_CREATORS) THEN "TooManyCreators"
    ELSE IF creator_splits = <<>> THEN "NoCreators"
    ELSE IF ~(total_percentage(creator_splits) = TOTAL_PERCENTAGE) THEN "InvalidSplitPercentage"
    ELSE IF \E j \in 1..Len(creator_splits) :
                ~(creator_splits[j].percentage > 0 /\ creator_splits[j].percentage < 100)
         THEN "InvalidCreatorPercentage"
    ELSE "Ok"

-----------------------------------------------------------------------------
(* Amounts of mint_nft / mint_collaborative_nft                            *)

PLATFORM_FEE_BPS == 1000
PERCENT_DENOMINATOR == 100

\* ((sale_amount_lamports as u128) * (PLATFORM_FEE_BPS as u128) / 10_000u128) as u64
platform_fee(sale_amount_lamports) ==
    AsU64(DivSmall(MulSmall(AsU128(sale_amount_lamports), PLATFORM_FEE_BPS), BPS_DENOMINATOR))

\* a remaining amount from which the platform fee was not taken
remaining_amount_NoFee(sale_amount_lamports) == sale_amount_lamports

\* sale_amount_lamports.saturating_sub(platform_fee)
remaining_amount(sale_amount_lamports) ==
    saturating_sub(sale_amount_lamports, platform_fee(sale_amount_lamports))

\* creator_amount dividing by the basis-point denominator instead of 100
creator_amount_Bps(remaining, percentage) ==
    AsU64(DivSmall(MulSmall(AsU128(remaining), percentage), BPS_DENOMINATOR))

\* creator_amount rounding up instead of flooring
creator_amount_Ceil(remaining, percentage) ==
    AsU64(DivSmall(Add(MulSmall(AsU128(remaining), percentage),
                       FromInt(PERCENT_DENOMINATOR - 1, U128Limbs)), PERCENT_DENOMINATOR))

\* ((remaining_amount as u128) * (creator_split.percentage as u128) / 100u128) as u64
creator_amount(remaining, percentage) ==
    AsU64(DivSmall(MulSmall(AsU128(remaining), percentage), PERCENT_DENOMINATOR))

\* the amounts the distribution loop computes, in schedule order
creator_amounts(sale_amount_lamports, creator_splits) ==
    [j \in 1..Len(creator_splits) |->
        creator_amount(remaining_amount(sale_amount_lamports), creator_splits[j].percentage)]

-----------------------------------------------------------------------------
(* Inputs                                                                  *)

MaxShortLen == 3        \* share lists up to this length range over ShortPcts
OverCount == 1          \* share lists reach MAX_CREATORS + OverCount entries
MaxGross == 120         \* gross / sale amounts 0..MaxGross are all tried

ShortPcts == {0, 1, 25, 49, 50, 51, 75, 99, 100, 255}
LongPcts == {10, 20}
ExamplePcts ==
    {<<50, 30, 20>>, <<50, 30, 25>>, <<50, 60>>, <<60, 40>>,
     <<0, 10, 10, 10, 10, 10, 10, 10, 10, 10, 10>>,
     <<0, 20, 10, 10, 10, 10, 10, 10, 10, 10>>,
     <<10, 10, 10, 10, 10, 10, 10, 10, 10, 0>>}

\* percentage: u8
U8Max == 255

\* every one-entry list of percentages
SinglePcts == {<<p>> : p \in 0..U8Max}

PctLists ==
    UNION {[1..n -> ShortPcts] : n \in 0..MaxShortLen}
    \cup SinglePcts
    \cup UNION {[1..n -> LongPcts] : n \in (MaxShortLen + 1)..(MAX_CREATORS + OverCount)}
    \cup ExamplePcts

ShareLists == {Splits(p) : p \in PctLists}

U64Max == [j \in 1..U64Limbs |-> LimbBase - 1]
I63Max == [j \in 1..U64Limbs |-> IF j = U64Limbs THEN (LimbBase \div 2) - 1 ELSE LimbBase - 1]
Pow63 == [j \in 1..U64Limbs |-> IF j = U64Limbs THEN LimbBase \div 2 ELSE 0]
Pow32 == [j \in 1..U64Limbs |-> IF j = 5 THEN 1 ELSE 0]
\* 10^19 = 0x8AC7230489E80000, least significant limb first
TenPow19 == <<0, 0, 232, 137, 4, 35, 199, 138>>

Amounts ==
    {U64(n) : n \in 0..MaxGross}
    \cup {U64(10000), U64(12345), U64(1000000), U64(2000000)}
    \cup {Pow32, Sub(I63Max, U64(7)), I63Max, Pow63, TenPow19, U64Max}

BpsInputs == {0, 1, 999, 1000, 2500, 9999, 10000, 10001, 20000, 65535}

MaxRequests == 2        \* requests submitted in one behaviour
BuyerFunds == 150       \* lamports of the buyer before the first request

\* the share lists and sale amounts submitted to the transaction machine
TxPctLists == {<<>>, <<100>>, <<40, 60>>, <<60, 40>>, <<50, 60>>, <<20, 30, 50>>}
TxSales == {2, 100, 300, 2000}
TxShareLists == {Splits(p) : p \in TxPctLists}

AllKeys ==
    {Buyer, PLATFORM_WALLET, Stranger}
    \cup UNION {{s[j].creator_pubkey : j \in 1..Len(s)} : s \in TxShareLists}

\* addresses at which a request may ask for a new RoyaltyAccount
RoyaltyAccountKeys == {"royalty1", "royalty2"}

\* an address holding no account yet
Uninitialized == [initialized |-> FALSE, royalties |-> <<>>, platform_fee |-> 0]

NoRequest ==
    [sale_amount_lamports |-> 0, creator_splits |-> <<>>, platform |-> PLATFORM_WALLET,
     remaining_accounts |-> <<>>, mint_authority_ok |-> TRUE,
     royalty_account |-> "royalty1", royalties |-> <<>>]

\* the ledger before the first request, no transaction running
TxIdle ==
    /\ bal = [k \in AllKeys |-> IF k = Buyer THEN BuyerFunds ELSE 0]
    /\ supply = 0
    /\ events = <<>>
    /\ pc = "idle"
    /\ op = "none"
    /\ req = NoRequest
    /\ wbal = bal
    /\ wsupply = 0
    /\ wevents = <<>>
    /\ idx = 0
    /\ err = "none"
    /\ result = "none"
    /\ log = <<>>
    /\ nreq = 0
    /\ royalty = [a \in RoyaltyAccountKeys |-> Uninitialized]
    /\ wroyalty = royalty

-----------------------------------------------------------------------------
(* Schedule validation as a pure function                                  *)

InitValidate == TxIdle /\ arg \in ShareLists /\ ret = "pending" /\ applied = FALSE

ApplyValidate ==
    /\ ~applied
    /\ applied' = TRUE
    /\ ret' = ValidateSplits(arg)
    /\ UNCHANGED <<arg, txvars>>

NextValidate == ApplyValidate

SpecValidate == InitValidate /\ [][NextValidate]_vars

PctOf(s) == Percentages(s)
Count(s) == Len(s)
HasOutOfRange(s) == \E j \in 1..Len(s) : s[j].percentage <= 0 \/ s[j].percentage >= 100

\* C2: every share list with 1..10 entries, every percentage in 1..99 and
\* percentages summing to exactly 100 passes validation (none of NoCreators,
\* TooManyCreators, InvalidSplitPercentage, InvalidCreatorPercentage is raised).
C2_WellFormedAccepted ==
    (/\ applied
     /\ Count(arg) \in 1..10
     /\ \A j \in 1..Len(arg) : arg[j].percentage \in 1..99
     /\ SumSeq(PctOf(arg)) = 100)
    => (/\ ret \notin {"NoCreators", "TooManyCreators", "InvalidSplitPercentage",
                       "InvalidCreatorPercentage"}
        /\ ret = "Ok")

C2_Witness == applied /\ ret = "Ok" /\ Count(arg) = 10

\* C3 as stated: every share list of 1..10 entries with some percentage <= 0 or
\* >= 100 is rejected with InvalidCreatorPercentage, whatever the sum.
C3_Original ==
    (applied /\ Count(arg) \in 1..10 /\ HasOutOfRange(arg))
    => ret = "InvalidCreatorPercentage"

\* C3 amended: a share list of 1..10 entries with some percentage <= 0 or >= 100
\* is rejected with InvalidCreatorPercentage when its percentages sum to exactly
\* 100, and with InvalidSplitPercentage when they do not (the sum is checked first).
C3_OutOfRangeRejected ==
    (applied /\ Count(arg) \in 1..10 /\ HasOutOfRange(arg))
    => ret = (IF SumSeq(PctOf(arg)) = 100 THEN "InvalidCreatorPercentage"
              ELSE "InvalidSplitPercentage")

C3_Witness ==
    /\ applied
    /\ ret = "InvalidCreatorPercentage"
    /\ \E j \in 1..Len(arg) : arg[j].percentage = 0
    /\ \E j \in 1..Len(arg) : arg[j].percentage \in 1..99

\* C4: every share list of 1..10 entries whose percentages do not sum to exactly
\* 100 (below or above, no tolerance) is rejected with InvalidSplitPercentage.
C4_SumMismatchRejected ==
    (applied /\ Count(arg) \in 1..10 /\ SumSeq(PctOf(arg)) # 100)
    => ret = "InvalidSplitPercentage"

C4_Witness == applied /\ ret = "InvalidSplitPercentage" /\ PctOf(arg) = <<50, 60>>

\* C5: the empty share list is rejected with NoCreators and every share list of
\* more than 10 entries with TooManyCreators, whatever its percentages; the two
\* outcomes take precedence over the percentage errors.
C5_CountErrors ==
    applied =>
        /\ (Count(arg) = 0 => ret = "NoCreators")
        /\ (Count(arg) > 10 => ret = "TooManyCreators")
        /\ (ret = "NoCreators" => Count(arg) = 0)
        /\ (ret = "TooManyCreators" => Count(arg) > 10)

C5_Witness ==
    /\ applied
    /\ ret = "TooManyCreators"
    /\ Count(arg) = 11
    /\ SumSeq(PctOf(arg)) = 100
    /\ HasOutOfRange(arg)

-----------------------------------------------------------------------------
(* math::split_fee as a pure function                                      *)

InitFee ==
    /\ TxIdle
    /\ arg \in [gross_cents : Amounts, fee_bps : BpsInputs]
    /\ ret = "pending"
    /\ applied = FALSE

ApplySplitFee ==
    /\ ~applied
    /\ applied' = TRUE
    /\ ret' = split_fee_u64(arg.gross_cents, arg.fee_bps)
    /\ UNCHANGED <<arg, txvars>>

NextFee == ApplySplitFee

SpecFee == InitFee /\ [][NextFee]_vars

U128(n) == FromInt(n, U128Limbs)

\* fee = floor(gross * bps / 10000), stated without division:
\* fee * 10000 <= gross * bps < fee * 10000 + 10000
IsFloorOfBps(fee, gross, bps) ==
    LET product == MulSmall(AsU128(gross), bps)
        back    == MulSmall(AsU128(fee), 10000)
    IN  /\ Leq(back, product)
        /\ Leq(Sub(product, back), U128(9999))

\* C6: for gross in [0, 2^63) and fee_bps in [0, 10000], split_fee returns
\* (fee, net) with fee = floor(gross * fee_bps / 10000) and fee + net = gross;
\* split_fee(10000, 1000) = (1000, 9000), split_fee(12345, 1000) = (1234, 11111),
\* split_fee(1000000, 1000) = (100000, 900000).
C6_FeeSplit ==
    (applied /\ Leq(arg.gross_cents, I63Max) /\ arg.fee_bps \in 0..10000)
    => /\ IsFloorOfBps(ret[1], arg.gross_cents, arg.fee_bps)
       /\ Leq(ret[1], arg.gross_cents)
       /\ Add(ret[1], ret[2]) = arg.gross_cents
       /\ (arg = [gross_cents |-> U64(10000), fee_bps |-> 1000]
              => ret = <<U64(1000), U64(9000)>>)
       /\ (arg = [gross_cents |-> U64(12345), fee_bps |-> 1000]
              => ret = <<U64(1234), U64(11111)>>)
       /\ (arg = [gross_cents |-> U64(1000000), fee_bps |-> 1000]
              => ret = <<U64(100000), U64(900000)>>)

C6_Witness ==
    /\ applied
    /\ arg = [gross_cents |-> U64(12345), fee_bps |-> 1000]
    /\ ret = <<U64(1234), U64(11111)>>

-----------------------------------------------------------------------------
(* The amounts of a collaborative distribution as a pure function          *)

InitDist ==
    /\ TxIdle
    /\ arg \in [sale_amount_lamports : Amounts,
                creator_splits : {s \in ShareLists : ValidateSplits(s) = "Ok"}]
    /\ ret = "pending"
    /\ applied = FALSE

ApplyDistribute ==
    /\ ~applied
    /\ applied' = TRUE
    /\ ret' = [platform_fee |-> platform_fee(arg.sale_amount_lamports),
               remaining_amount |-> remaining_amount(arg.sale_amount_lamports),
               creator_amounts |-> creator_amounts(arg.sale_amount_lamports, arg.creator_splits)]
    /\ UNCHANGED <<arg, txvars>>

NextDist == ApplyDistribute

SpecDist == InitDist /\ [][NextDist]_vars

\* sum of u64 amounts, computed in 128 bits
RECURSIVE SumWide(_)
SumWide(s) == IF s = <<>> THEN U128(0) ELSE Add(AsU128(Head(s)), SumWide(Tail(s)))

\* x = floor(remaining * pct / 100), stated without division
IsFloorOfPct(x, remaining, pct) ==
    LET product == MulSmall(AsU128(remaining), pct)
        back    == MulSmall(AsU128(x), 100)
    IN  /\ Leq(back, product)
        /\ Leq(Sub(product, back), U128(99))

Residual(d) == Sub(AsU128(d.remaining_amount), SumWide(d.creator_amounts))

\* C7: with platform_fee = floor(sale * 1000 / 10000), remaining = sale - platform_fee
\* and creator_amount_i = floor(remaining * percentage_i / 100) over a validated
\* schedule of count shares, 0 <= remaining - sum(creator_amount_i) <= count - 1.
C7_ResidualBound ==
    applied =>
        /\ IsFloorOfBps(ret.platform_fee, arg.sale_amount_lamports, 1000)
        /\ Add(ret.platform_fee, ret.remaining_amount) = arg.sale_amount_lamports
        /\ Leq(ret.platform_fee, arg.sale_amount_lamports)
        /\ Len(ret.creator_amounts) = Len(arg.creator_splits)
        /\ \A j \in 1..Len(arg.creator_splits) :
              IsFloorOfPct(ret.creator_amounts[j], ret.remaining_amount,
                           arg.creator_splits[j].percentage)
        /\ Leq(SumWide(ret.creator_amounts), AsU128(ret.remaining_amount))
        /\ Leq(Residual(ret), U128(Len(arg.creator_splits) - 1))

\* the bound is attained: ten shares and a residual of nine units
C7_Witness ==
    /\ applied
    /\ Len(arg.creator_splits) = 10
    /\ Residual(ret) = U128(9)

-----------------------------------------------------------------------------
(* The two instructions of renaiss_block, run as ledger transactions       *)

committed == <<bal, supply, events, royalty>>
working == <<wbal, wsupply, wevents, wroyalty>>
purevars == <<arg, ret, applied>>

\* the accounts a caller may pass for a share list: a prefix of the recipients,
\* or all of them with one position replaced by another account
AccountLists(creator_splits) ==
    LET keys == [j \in 1..Len(creator_splits) |-> creator_splits[j].creator_pubkey]
    IN  {SubSeq(keys, 1, n) : n \in 0..Len(keys)}
        \cup {[keys EXCEPT ![k] = Stranger] : k \in 1..Len(keys)}

\* one cross-program invocation: a system transfer from the buyer (i is the loop
\* index of a creator transfer, -1 for the platform fee) or a token mint_to
Cpi(ix, to, amount, i, ok) == [ix |-> ix, to |-> to, amount |-> amount, i |-> i, ok |-> ok]

\* lamports after system_instruction::transfer(from, to, amount)
Transferred(b, from, to, amount) ==
    [[b EXCEPT ![from] = @ - amount] EXCEPT ![to] = @ + amount]

\* the handler returns Err(e): `?` and require!
Fail_ReturnsOk(e) ==
    /\ err' = e
    /\ result' = "Ok"
    /\ pc' = "returned"

Fail(e) ==
    /\ err' = e
    /\ result' = "Err"
    /\ pc' = "returned"

\* the handler goes on to position p
Goto(p) ==
    /\ pc' = p
    /\ UNCHANGED <<err, result>>

\* constraint = platform_wallet.key() == PLATFORM_WALLET (MintNft)
MintNftConstraint(platform_wallet) == platform_wallet = PLATFORM_WALLET

MintCollaborativeNftConstraint_None(platform) == TRUE

\* constraint = platform.key() == PLATFORM_WALLET (MintCollaborativeNft)
MintCollaborativeNftConstraint(platform) == platform = PLATFORM_WALLET

require_keys_eq_Skip(a, b) == TRUE

\* require_keys_eq!(creator_account.key(), creator_split.creator_pubkey, ..)
require_keys_eq(a, b) == a = b

\* the platform fee and a creator's amount on the naturals of the transaction machine
PlatformFeeOf(sale_amount_lamports) == ToInt(platform_fee(U64(sale_amount_lamports)))
RemainingOf(sale_amount_lamports) == ToInt(remaining_amount(U64(sale_amount_lamports)))
CreatorAmountOf(sale_amount_lamports, percentage) ==
    ToInt(creator_amount(remaining_amount(U64(sale_amount_lamports)), percentage))

\* a loop iteration without the guard `if creator_amount > 0`
CreatorStep_PayZero(creator_amount_i, i, remaining_accounts, creator_pubkey) ==
    IF ~(i < Len(remaining_accounts))
    THEN [err |-> "MissingCreatorAccount", issue |-> FALSE, to |-> creator_pubkey]
    ELSE IF ~require_keys_eq(remaining_accounts[i + 1], creator_pubkey)
    THEN [err |-> "CreatorAccountMismatch", issue |-> FALSE, to |-> remaining_accounts[i + 1]]
    ELSE [err |-> "none", issue |-> TRUE, to |-> remaining_accounts[i + 1]]

\* a loop iteration that pays the supplied account before it compares the keys
CreatorStep_PayFirst(creator_amount_i, i, remaining_accounts, creator_pubkey) ==
    IF creator_amount_i > 0
    THEN IF ~(i < Len(remaining_accounts))
         THEN [err |-> "MissingCreatorAccount", issue |-> FALSE, to |-> creator_pubkey]
         ELSE IF ~require_keys_eq(remaining_accounts[i + 1], creator_pubkey)
         THEN [err |-> "CreatorAccountMismatch", issue |-> TRUE, to |-> remaining_accounts[i + 1]]
         ELSE [err |-> "none", issue |-> TRUE, to |-> remaining_accounts[i + 1]]
    ELSE [err |-> "none", issue |-> FALSE, to |-> creator_pubkey]

\* one iteration of the distribution loop, up to the transfer: the error it raises
\* ("none" when it raises none), whether it invokes the transfer, and the payee
CreatorStep(creator_amount_i, i, remaining_accounts, creator_pubkey) ==
    IF creator_amount_i > 0
    THEN IF ~(i < Len(remaining_accounts))
         THEN [err |-> "MissingCreatorAccount", issue |-> FALSE, to |-> creator_pubkey]
         ELSE IF ~require_keys_eq(remaining_accounts[i + 1], creator_pubkey)
         THEN [err |-> "CreatorAccountMismatch", issue |-> FALSE, to |-> remaining_accounts[i + 1]]
         ELSE [err |-> "none", issue |-> TRUE, to |-> remaining_accounts[i + 1]]
    ELSE [err |-> "none", issue |-> FALSE, to |-> creator_pubkey]

\* the loop visiting the schedule from its last entry to its first
enumerate_Reversed(creator_splits, n) ==
    <<Len(creator_splits) - 1 - n, creator_splits[Len(creator_splits) - n]>>

\* creator_splits.iter().enumerate(): the n-th iteration of the distribution loop
\* visits position i = n (from 0) together with the entry at that position
enumerate(creator_splits, n) ==
    <<n, creator_splits[n + 1]>>

\* the ledger starts a transaction for a request
Begin(instruction, request) ==
    /\ pc = "idle"
    /\ nreq < MaxRequests
    /\ nreq' = nreq + 1
    /\ op' = instruction
    /\ req' = request
    /\ pc' = "accounts"
    /\ wbal' = bal
    /\ wsupply' = supply
    /\ wevents' = events
    /\ wroyalty' = royalty
    /\ idx' = 0
    /\ err' = "none"
    /\ result' = "none"
    /\ log' = <<>>
    /\ UNCHANGED <<committed, purevars>>

Submit_mint_nft ==
    /\ pc = "idle"
    /\ \E sale \in TxSales, platform \in {PLATFORM_WALLET, Stranger}, authority \in BOOLEAN :
        Begin("mint_nft",
              [NoRequest EXCEPT !.sale_amount_lamports = sale, !.platform = platform,
                                !.mint_authority_ok = authority])

Submit_mint_collaborative_nft ==
    /\ pc = "idle"
    /\ \E sale \in TxSales, platform \in {PLATFORM_WALLET, Stranger}, authority \in BOOLEAN,
       splits \in TxShareLists :
        \E accounts \in AccountLists(splits) :
            Begin("mint_collaborative_nft",
                  [NoRequest EXCEPT !.sale_amount_lamports = sale, !.creator_splits = splits,
                                    !.platform = platform, !.remaining_accounts = accounts,
                                    !.mint_authority_ok = authority])

(* mint_nft *)

MintNft_accounts ==
    /\ pc = "accounts" /\ op = "mint_nft"
    /\ IF MintNftConstraint(req.platform) THEN Goto("nft_mint_to")
       ELSE Fail("PlatformWalletMismatch")
    /\ UNCHANGED <<committed, working, op, req, idx, log, nreq, purevars>>

MintNft_mint_to ==
    /\ pc = "nft_mint_to"
    /\ log' = Append(log, Cpi("mint_to", "recipient_token", 1, -1, req.mint_authority_ok))
    /\ IF req.mint_authority_ok
       THEN wsupply' = wsupply + 1 /\ Goto("nft_fee")
       ELSE UNCHANGED wsupply /\ Fail("TokenError")
    /\ UNCHANGED <<committed, wroyalty, wbal, wevents, op, req, idx, nreq, purevars>>

MintNft_fee ==
    /\ pc = "nft_fee"
    /\ LET fee == PlatformFeeOf(req.sale_amount_lamports)
       IN  IF fee > 0
           THEN /\ log' = Append(log, Cpi("transfer", req.platform, fee, -1, wbal[Buyer] >= fee))
                /\ IF wbal[Buyer] >= fee
                   THEN wbal' = Transferred(wbal, Buyer, req.platform, fee) /\ Goto("nft_emit")
                   ELSE UNCHANGED wbal /\ Fail("TransferFailed")
           ELSE UNCHANGED <<log, wbal>> /\ Goto("nft_emit")
    /\ UNCHANGED <<committed, wroyalty, wsupply, wevents, op, req, idx, nreq, purevars>>

MintNft_emit ==
    /\ pc = "nft_emit"
    /\ wevents' = Append(wevents,
                         [name |-> "Minted", platform_wallet |-> req.platform,
                          sale_amount_lamports |-> req.sale_amount_lamports,
                          fee_bps |-> PLATFORM_FEE_BPS])
    /\ result' = "Ok"
    /\ pc' = "returned"
    /\ UNCHANGED <<committed, wroyalty, wbal, wsupply, op, req, idx, err, log, nreq, purevars>>

(* mint_collaborative_nft *)

MintCollaborative_accounts ==
    /\ pc = "accounts" /\ op = "mint_collaborative_nft"
    /\ IF MintCollaborativeNftConstraint(req.platform) THEN Goto("validate")
       ELSE Fail("PlatformWalletMismatch")
    /\ UNCHANGED <<committed, working, op, req, idx, log, nreq, purevars>>

MintCollaborative_validate ==
    /\ pc = "validate"
    /\ LET v == ValidateSplits(req.creator_splits)
       IN  IF v = "Ok" THEN Goto("platform_fee") ELSE Fail(v)
    /\ UNCHANGED <<committed, working, op, req, idx, log, nreq, purevars>>

MintCollaborative_platform_fee ==
    /\ pc = "platform_fee"
    /\ LET fee == PlatformFeeOf(req.sale_amount_lamports)
       IN  IF fee > 0
           THEN /\ log' = Append(log, Cpi("transfer", req.platform, fee, -1, wbal[Buyer] >= fee))
                /\ IF wbal[Buyer] >= fee
                   THEN wbal' = Transferred(wbal, Buyer, req.platform, fee) /\ Goto("creators")
                   ELSE UNCHANGED wbal /\ Fail("TransferFailed")
           ELSE UNCHANGED <<log, wbal>> /\ Goto("creators")
    /\ UNCHANGED <<committed, wroyalty, wsupply, wevents, op, req, idx, nreq, purevars>>

MintCollaborative_creator ==
    /\ pc = "creators"
    /\ idx < Len(req.creator_splits)
    /\ LET i == enumerate(req.creator_splits, idx)[1]
           creator_split == enumerate(req.creator_splits, idx)[2]
           amount == CreatorAmountOf(req.sale_amount_lamports, creator_split.percentage)
           step == CreatorStep(amount, i, req.remaining_accounts, creator_split.creator_pubkey)
           paid == step.issue /\ wbal[Buyer] >= amount
       IN  /\ log' = IF step.issue
                     THEN Append(log, Cpi("transfer", step.to, amount, i, paid))
                     ELSE log
           /\ wbal' = IF paid THEN Transferred(wbal, Buyer, step.to, amount) ELSE wbal
           /\ IF step.issue /\ ~paid THEN Fail("TransferFailed") /\ UNCHANGED idx
              ELSE IF step.err # "none" THEN Fail(step.err) /\ UNCHANGED idx
              ELSE idx' = idx + 1 /\ Goto("creators")
    /\ UNCHANGED <<committed, wroyalty, wsupply, wevents, op, req, nreq, purevars>>

MintCollaborative_creators_done ==
    /\ pc = "creators"
    /\ ~(idx < Len(req.creator_splits))
    /\ Goto("mint_to")
    /\ UNCHANGED <<committed, working, op, req, idx, log, nreq, purevars>>

\* a token issuance that is repeated
MintCollaborative_mint_to_Twice ==
    /\ pc = "mint_to"
    /\ log' = log \o <<Cpi("mint_to", "buyer_token_account", 1, -1, req.mint_authority_ok),
                       Cpi("mint_to", "buyer_token_account", 1, -1, req.mint_authority_ok)>>
    /\ IF req.mint_authority_ok
       THEN wsupply' = wsupply + 2 /\ Goto("emit")
       ELSE UNCHANGED wsupply /\ Fail("TokenError")
    /\ UNCHANGED <<committed, wroyalty, wbal, wevents, op, req, idx, nreq, purevars>>

MintCollaborative_mint_to ==
    /\ pc = "mint_to"
    /\ log' = Append(log, Cpi("mint_to", "buyer_token_account", 1, -1, req.mint_authority_ok))
    /\ IF req.mint_authority_ok
       THEN wsupply' = wsupply + 1 /\ Goto("emit")
       ELSE UNCHANGED wsupply /\ Fail("TokenError")
    /\ UNCHANGED <<committed, wroyalty, wbal, wevents, op, req, idx, nreq, purevars>>

MintCollaborative_emit ==
    /\ pc = "emit"
    /\ wevents' = Append(wevents,
                         [name |-> "CollaborativeMinted", platform_wallet |-> req.platform,
                          sale_amount_lamports |-> req.sale_amount_lamports,
                          platform_fee |-> PlatformFeeOf(req.sale_amount_lamports),
                          remaining_amount |-> RemainingOf(req.sale_amount_lamports),
                          num_creators |-> Len(req.creator_splits) % LimbBase])
    /\ result' = "Ok"
    /\ pc' = "returned"
    /\ UNCHANGED <<committed, wroyalty, wbal, wsupply, op, req, idx, err, log, nreq, purevars>>

(* the ledger ends the transaction *)

\* what is left of a transaction once the ledger has ended it
Ended ==
    /\ pc' = "idle"
    /\ op' = "none"
    /\ req' = NoRequest
    /\ idx' = 0
    /\ err' = "none"
    /\ result' = "none"
    /\ log' = <<>>
    /\ UNCHANGED <<nreq, purevars>>

\* Ok(()): the transaction's writes become the ledger's state
Commit ==
    /\ pc = "returned" /\ result = "Ok"
    /\ bal' = wbal /\ supply' = wsupply /\ events' = wevents /\ royalty' = wroyalty
    /\ UNCHANGED working
    /\ Ended

\* Err(_): the transaction's writes are dropped
Rollback ==
    /\ pc = "returned" /\ result = "Err"
    /\ wbal' = bal /\ wsupply' = supply /\ wevents' = events /\ wroyalty' = royalty
    /\ UNCHANGED committed
    /\ Ended

Init == TxIdle /\ arg = <<>> /\ ret = "pending" /\ applied = FALSE

Next ==
    \/ Submit_mint_nft
    \/ Submit_mint_collaborative_nft
    \/ MintNft_accounts
    \/ MintNft_mint_to
    \/ MintNft_fee
    \/ MintNft_emit
    \/ MintCollaborative_accounts
    \/ MintCollaborative_validate
    \/ MintCollaborative_platform_fee
    \/ MintCollaborative_creator
    \/ MintCollaborative_creators_done
    \/ MintCollaborative_mint_to
    \/ MintCollaborative_emit
    \/ Commit
    \/ Rollback

Spec == Init /\ [][Next]_vars

-----------------------------------------------------------------------------
(* rb_contracts::mint_nft: the program that stores a royalty schedule      *)

RoyaltyShare(k, p) == [recipient |-> k, percent |-> p]

\* the schedule with the given percentages, recipients named by position
Royalties(pcts) == [j \in 1..Len(pcts) |-> RoyaltyShare(CreatorNames[j], pcts[j])]

\* percentage lists submitted to rb_contracts::mint_nft
RbPctLists ==
    {<<100>>, <<60, 40>>, <<50, 60>>, <<0, 100>>,
     <<10, 10, 10, 10, 10, 10, 10, 10, 10, 10, 0>>}

\* let total: u32 = royalties.iter().map(|s| s.percent as u32).sum()
total_royalties(royalties) == SumSeq([j \in 1..Len(royalties) |-> royalties[j].percent])

\* if total != 100 { return err!(ErrorCode::InvalidRoyalties); }
RoyaltiesValid(royalties) == total_royalties(royalties) = TOTAL_PERCENTAGE

\* bytes reserved for a RoyaltyAccount: space = 8 + 4 + (32 + 1) * 10 + 1
RoyaltyAccountSpace == 8 + 4 + (32 + 1) * 10 + 1

\* bytes of a serialized RoyaltyAccount: discriminator, vector length, the shares
\* (a 32-byte key and a u8 each), platform_fee
SerializedSize(account) == 8 + 4 + (32 + 1) * Len(account.royalties) + 1

Submit_rb_mint_nft ==
    /\ pc = "idle"
    /\ \E pcts \in RbPctLists, address \in RoyaltyAccountKeys, authority \in BOOLEAN :
        Begin("rb_mint_nft",
              [NoRequest EXCEPT !.royalties = Royalties(pcts), !.royalty_account = address,
                                !.mint_authority_ok = authority])

\* #[account(init, ...)] royalty_account: the address must not hold an account yet
RbMintNft_accounts ==
    /\ pc = "accounts" /\ op = "rb_mint_nft"
    /\ IF wroyalty[req.royalty_account].initialized
       THEN Fail("AccountAlreadyInUse") /\ UNCHANGED wroyalty
       ELSE /\ wroyalty' = [wroyalty EXCEPT
                              ![req.royalty_account] = [Uninitialized EXCEPT !.initialized = TRUE]]
            /\ Goto("rb_validate")
    /\ UNCHANGED <<committed, wbal, wsupply, wevents, op, req, idx, log, nreq, purevars>>

RbMintNft_validate ==
    /\ pc = "rb_validate"
    /\ IF RoyaltiesValid(req.royalties) THEN Goto("rb_mint_to") ELSE Fail("InvalidRoyalties")
    /\ UNCHANGED <<committed, working, op, req, idx, log, nreq, purevars>>

RbMintNft_mint_to ==
    /\ pc = "rb_mint_to"
    /\ log' = Append(log, Cpi("mint_to", "token_account", 1, -1, req.mint_authority_ok))
    /\ IF req.mint_authority_ok
       THEN wsupply' = wsupply + 1 /\ Goto("rb_store")
       ELSE UNCHANGED wsupply /\ Fail("TokenError")
    /\ UNCHANGED <<committed, wroyalty, wbal, wevents, op, req, idx, nreq, purevars>>

\* royalty_account.royalties = royalties; royalty_account.platform_fee = 10; Ok(())
RbMintNft_store ==
    /\ pc = "rb_store"
    /\ wroyalty' = [wroyalty EXCEPT ![req.royalty_account] =
                        [initialized |-> TRUE, royalties |-> req.royalties, platform_fee |-> 10]]
    /\ Goto("rb_exit")
    /\ UNCHANGED <<committed, wbal, wsupply, wevents, op, req, idx, log, nreq, purevars>>

\* on exit the account is serialized into the space reserved for it
RbMintNft_exit ==
    /\ pc = "rb_exit"
    /\ IF SerializedSize(wroyalty[req.royalty_account]) <= RoyaltyAccountSpace
       THEN result' = "Ok" /\ pc' = "returned" /\ UNCHANGED err
       ELSE Fail("AccountDidNotSerialize")
    /\ UNCHANGED <<committed, working, op, req, idx, log, nreq, purevars>>

\* rb_contracts::mint_nft and the distribution of mint_collaborative_nft on one ledger
NextRoyalty ==
    \/ Submit_rb_mint_nft
    \/ RbMintNft_accounts
    \/ RbMintNft_validate
    \/ RbMintNft_mint_to
    \/ RbMintNft_store
    \/ RbMintNft_exit
    \/ Submit_mint_collaborative_nft
    \/ MintCollaborative_accounts
    \/ MintCollaborative_validate
    \/ MintCollaborative_platform_fee
    \/ MintCollaborative_creator
    \/ MintCollaborative_creators_done
    \/ MintCollaborative_mint_to
    \/ MintCollaborative_emit
    \/ Commit
    \/ Rollback

SpecRoyalty == Init /\ [][NextRoyalty]_vars

-----------------------------------------------------------------------------
(* Properties of the transaction machine                                   *)

Collaborative == op = "mint_collaborative_nft"
Completed == pc = "returned" /\ result = "Ok"
Transfers == {k \in 1..Len(log) : log[k].ix = "transfer"}

\* the account supplied at position j (1-based) is present and is the recipient
\* the schedule records at that position
AccountMatches(j) ==
    /\ j <= Len(req.remaining_accounts)
    /\ req.remaining_accounts[j] = req.creator_splits[j].creator_pubkey

AmountAt(j) == CreatorAmountOf(req.sale_amount_lamports, req.creator_splits[j].percentage)

\* C1: atomicity on failure.  While a request runs, and once it has raised an
\* error at any step, no step changes the committed ledger (balances of buyer,
\* platform wallet and creators, minted token units, visible events): the state
\* after an aborted mint_nft / mint_collaborative_nft request is the state before it.
C1_Atomicity ==
    [][/\ (pc \notin {"idle", "returned"} => UNCHANGED committed)
       /\ (err # "none" => UNCHANGED committed /\ pc' = "idle")
       /\ (pc = "returned" /\ result = "Err" => UNCHANGED committed)]_vars

\* the second creator transfer fails after the platform fee and the first share were paid
C1_Witness ==
    /\ Collaborative
    /\ pc = "returned"
    /\ err = "TransferFailed"
    /\ idx = 1
    /\ Cardinality({k \in Transfers : log[k].ok}) = 2
    /\ wbal # bal

\* C8: in both instructions a platform account other than PLATFORM_WALLET aborts
\* the request with PlatformWalletMismatch, and at that abort no transfer and no
\* token issuance has been issued.
C8_PlatformCheckFirst ==
    /\ (err = "PlatformWalletMismatch"
           => log = <<>> /\ wbal = bal /\ wsupply = supply /\ wevents = events)
    /\ (pc \notin {"idle", "accounts"} /\ req.platform # PLATFORM_WALLET
           => err = "PlatformWalletMismatch" /\ result = "Err")
    /\ (log # <<>> => req.platform = PLATFORM_WALLET)

C8_Witness ==
    /\ Collaborative
    /\ err = "PlatformWalletMismatch"
    /\ ValidateSplits(req.creator_splits) = "Ok"
    /\ PlatformFeeOf(req.sale_amount_lamports) > 0
    /\ \A j \in 1..Len(req.creator_splits) : AccountMatches(j)

\* C9 as stated: no collaborative request with a missing or mismatched creator
\* account at any position of the schedule reaches Completed.
C9_Original ==
    (Collaborative /\ Completed)
    => \A j \in 1..Len(req.creator_splits) : AccountMatches(j)

\* C9 amended: the account at position i is looked up and compared only when the
\* creator amount of position i is nonzero.  For every such position a missing
\* account aborts with MissingCreatorAccount and a differing one with
\* CreatorAccountMismatch, so no request with a missing or mismatched account at
\* a position with a nonzero amount reaches Completed.
C9_PositionalMatching ==
    /\ (Collaborative /\ Completed
           => \A j \in 1..Len(req.creator_splits) : AmountAt(j) > 0 => AccountMatches(j))
    /\ (err = "MissingCreatorAccount"
           => /\ AmountAt(idx + 1) > 0
              /\ ~(idx + 1 <= Len(req.remaining_accounts)))
    /\ (err = "CreatorAccountMismatch"
           => /\ AmountAt(idx + 1) > 0
              /\ idx + 1 <= Len(req.remaining_accounts)
              /\ req.remaining_accounts[idx + 1] # req.creator_splits[idx + 1].creator_pubkey)
    /\ (Collaborative /\ pc = "creators" /\ idx > 0 /\ AmountAt(idx) > 0
           => AccountMatches(idx))

C9_Witness ==
    /\ pc = "returned"
    /\ err = "CreatorAccountMismatch"
    /\ idx = 1
    /\ req.remaining_accounts[1] = req.creator_splits[1].creator_pubkey

\* C10 as stated: when mint_collaborative_nft aborts with MissingCreatorAccount,
\* CreatorAccountMismatch or PlatformWalletMismatch, no payment was issued in the
\* request before the error was detected.
C10_Original ==
    (Collaborative /\ err \in {"MissingCreatorAccount", "CreatorAccountMismatch",
                               "PlatformWalletMismatch"})
    => Transfers = {}

\* C10 amended: an account error of position i is detected before the transfer of
\* position i, which is never issued (nor is any later one), and
\* PlatformWalletMismatch is detected before any payment; the platform fee and the
\* shares of earlier positions may have been issued before a creator-account error
\* is detected (they do not persist, the request being aborted as a whole).
C10_DetectedBeforeOwnTransfer ==
    /\ (err \in {"MissingCreatorAccount", "CreatorAccountMismatch"}
           => \A k \in Transfers : log[k].i < idx /\ log[k].ok)
    /\ (err = "PlatformWalletMismatch" => Transfers = {})

C10_Witness ==
    /\ pc = "returned"
    /\ err = "MissingCreatorAccount"
    /\ idx = 1
    /\ Cardinality(Transfers) = 2

\* C11: settlement order.  In every execution of mint_collaborative_nft the
\* transfers appear in the order platform fee, then creator positions in
\* increasing order: the platform-fee transfer, when one is issued, is the first
\* call of the request, a creator transfer is issued only after it, and the
\* transfer of position i is issued before that of position j whenever i < j.
\* The order holds at every point of the run, hence for the prefix of transfers
\* issued by a request that aborts later; the token is issued after all of them.
C11_SettlementOrder ==
    Collaborative =>
        /\ \A k, l \in Transfers : k < l => log[k].i < log[l].i
        /\ \A k \in Transfers :
               /\ log[k].i = -1 => k = 1 /\ log[k].to = req.platform
               /\ log[k].i >= 0 =>
                      /\ log[k].to = req.creator_splits[log[k].i + 1].creator_pubkey
                      /\ PlatformFeeOf(req.sale_amount_lamports) > 0
                             => log[1].ix = "transfer" /\ log[1].i = -1
        /\ \A k \in 1..Len(log) : log[k].ix = "mint_to" => \A l \in Transfers : l < k

\* a three-creator request paid the fee and every creator, then aborted at the
\* token issuance
C11_Witness ==
    /\ Collaborative
    /\ pc = "returned"
    /\ err = "TokenError"
    /\ Len(req.creator_splits) = 3
    /\ Cardinality(Transfers) = 4

\* C12 as stated: every mint operation, mint_nft and mint_collaborative_nft alike,
\* passes Requested, ScheduleValidated, FeeSettled, CreatorsSettled, TokenIssued,
\* Completed in this order: the token-issuance call is made only after the platform
\* fee (and every creator share) has been settled, so no transfer follows it and,
\* when the fee is positive, its transfer precedes it.
C12_Original ==
    \A k \in 1..Len(log) :
        log[k].ix = "mint_to" =>
            /\ \A l \in Transfers : l < k
            /\ PlatformFeeOf(req.sale_amount_lamports) > 0
                   => \E l \in Transfers : l < k /\ log[l].i = -1 /\ log[l].ok

\* the stored schedule satisfies what the data model requires of a schedule
WellFormedRoyalties(royalties) ==
    /\ Len(royalties) >= 1 /\ Len(royalties) <= MAX_CREATORS
    /\ \A j \in 1..Len(royalties) : royalties[j].percent >= 1 /\ royalties[j].percent <= 99
    /\ total_royalties(royalties) = TOTAL_PERCENTAGE

\* the shares a collaborative request supplies, as recipient and percentage
SuppliedShares ==
    [j \in 1..Len(req.creator_splits) |->
        RoyaltyShare(req.creator_splits[j].creator_pubkey, req.creator_splits[j].percentage)]

\* C13 as stated: the stored schedule is authoritative.  Once a schedule has been
\* validated and stored for the asset, every later distribution for the asset uses
\* the stored share list unchanged, even when the later call supplies a different
\* list: a distribution that pays a creator pays by a stored list.
C13_Original ==
    (/\ Collaborative
     /\ \E a \in RoyaltyAccountKeys :
            royalty[a].initialized /\ WellFormedRoyalties(royalty[a].royalties)
     /\ \E k \in Transfers : log[k].i >= 0 /\ log[k].ok)
    => \E a \in RoyaltyAccountKeys :
           royalty[a].initialized /\ royalty[a].royalties = SuppliedShares

\* C14 as stated: every persisted RoyaltyAccount written by rb_contracts::mint_nft
\* was stored after successful validation and holds between 1 and 10 shares, each
\* percentage between 1 and 99, the percentages summing to exactly 100.
C14_Original ==
    \A a \in RoyaltyAccountKeys :
        royalty[a].initialized => WellFormedRoyalties(royalty[a].royalties)

\* the calls of the request for position i (-1: none of the creators) and kind ix
CallsOf(ix, i) == {k \in 1..Len(log) : log[k].ix = ix /\ log[k].i = i}

\* C15: exactly-once execution per request.  A mint_collaborative_nft request that
\* completes has issued exactly one token-issuance call, for one unit, at most one
\* platform-fee transfer (exactly one when the fee is positive) and at most one
\* transfer per schedule position (exactly one for each position whose amount is
\* positive).  No call is ever repeated while the request runs, a failed call is
\* the last call of its request, and a request that raised an error has returned.
C15_ExactlyOnce ==
    Collaborative =>
        /\ Completed =>
               /\ Cardinality(CallsOf("mint_to", -1)) = 1
               /\ \A k \in CallsOf("mint_to", -1) : log[k].amount = 1 /\ log[k].ok
               /\ wsupply = supply + 1
               /\ Cardinality(CallsOf("transfer", -1))
                      = IF PlatformFeeOf(req.sale_amount_lamports) > 0 THEN 1 ELSE 0
               /\ \A j \in 1..Len(req.creator_splits) :
                      Cardinality(CallsOf("transfer", j - 1)) = IF AmountAt(j) > 0 THEN 1 ELSE 0
        /\ \A k, l \in 1..Len(log) :
               (log[k].ix = log[l].ix /\ log[k].i = log[l].i) => k = l
        /\ \A k \in 1..Len(log) : ~log[k].ok => k = Len(log) /\ err # "none"
        /\ err # "none" => pc = "returned" /\ result = "Err"

\* a completed request for three creators: fee, three shares and the token
C15_Witness ==
    /\ Collaborative
    /\ Completed
    /\ Len(req.creator_splits) = 3
    /\ Cardinality(Transfers) = 4
    /\ Len(log) = 5

\* C16: no zero-amount transfer.  Every transfer issued by mint_nft or
\* mint_collaborative_nft moves a strictly positive amount: a platform fee of 0
\* (sale amount below 10) issues no platform transfer, a creator amount of 0 issues
\* no transfer for that position, and the request still goes on to the token
\* issuance and completes.
C16_NoZeroTransfer ==
    op \in {"mint_nft", "mint_collaborative_nft"} =>
        /\ \A k \in Transfers : log[k].amount > 0
        /\ PlatformFeeOf(req.sale_amount_lamports) = 0 => CallsOf("transfer", -1) = {}
        /\ Collaborative =>
               \A j \in 1..Len(req.creator_splits) :
                   (j <= idx /\ AmountAt(j) = 0) => CallsOf("transfer", j - 1) = {}
        /\ (Collaborative /\ pc \in {"creators", "mint_to"})
               => (err = "none" /\ result = "none")
        /\ Completed => CallsOf("mint_to", -1) # {}

\* a collaborative request of sale amount 2 completed: no fee transfer, no transfer
\* for the first position (amount 0), one for the second, and the token issued
C16_Witness ==
    /\ Collaborative
    /\ Completed
    /\ PlatformFeeOf(req.sale_amount_lamports) = 0
    /\ AmountAt(1) = 0
    /\ Cardinality(Transfers) = 1
    /\ CallsOf("mint_to", -1) # {}

\* floor(gross * bps / 10000) is below 2^64: gross * bps <= (2^64 - 1) * 10000 + 9999
FeeFitsU64(gross, bps) ==
    Leq(MulSmall(AsU128(gross), bps), Add(MulSmall(AsU128(U64Max), 10000), U128(9999)))

\* C17 as stated: for every fee_bps above 10000 (up to the u16 maximum) and every
\* u64 gross, split_fee does not reject the input, returns a fee exceeding gross,
\* and net == 0.
C17_Original ==
    (applied /\ arg.fee_bps > 10000)
    => /\ ~Leq(ret[1], arg.gross_cents)
       /\ IsZero(ret[2])

\* C17 amended: for every fee_bps above 10000 and every u64 gross, split_fee
\* returns a pair (it rejects nothing) with net = gross - fee when fee <= gross and
\* net = 0 otherwise.  When floor(gross * fee_bps / 10000) is below 2^64 the fee
\* is that floor, fee >= gross and net = 0, the fee exceeding gross exactly when
\* gross * (fee_bps - 10000) >= 10000 (always when gross >= 10000, never when
\* gross = 0).  When the floor does not fit, `as u64` keeps its low 64 bits: for
\* gross = 2^64 - 1 and fee_bps = 20000 the fee is 2^64 - 2 and net = 1.
C17_MisconfiguredRate ==
    (applied /\ arg.fee_bps > 10000)
    => /\ Len(ret) = 2 /\ Len(ret[1]) = U64Limbs /\ Len(ret[2]) = U64Limbs
       /\ IF Leq(ret[1], arg.gross_cents)
          THEN Add(ret[1], ret[2]) = arg.gross_cents
          ELSE IsZero(ret[2])
       /\ FeeFitsU64(arg.gross_cents, arg.fee_bps)
              => /\ IsFloorOfBps(ret[1], arg.gross_cents, arg.fee_bps)
                 /\ Leq(arg.gross_cents, ret[1])
                 /\ IsZero(ret[2])
                 /\ (ret[1] # arg.gross_cents)
                        <=> Leq(U128(10000),
                                MulSmall(AsU128(arg.gross_cents), arg.fee_bps - 10000))
                 /\ Leq(U64(10000), arg.gross_cents) => ret[1] # arg.gross_cents
                 /\ IsZero(arg.gross_cents) => IsZero(ret[1])
       /\ (arg.gross_cents = U64Max /\ arg.fee_bps = 20000)
              => ret = <<Sub(U64Max, U64(1)), U64(1)>>

\* a rate of 200%: the fee is twice the gross amount and net saturates at 0
C17_Witness ==
    /\ applied
    /\ arg = [gross_cents |-> U64(100), fee_bps |-> 20000]
    /\ ret = <<U64(200), U64(0)>>

IsMultipleOf100(w) == MulSmall(DivSmall(w, 100), 100) = w

\* floor(sale_amount * 10 / 100) over the naturals, the product formed at 128 bits
TenPercent(sale_amount) == DivSmall(MulSmall(AsU128(sale_amount), 10), 100)

\* the two distributions the unit tests work out
DistributionExamples ==
    /\ (arg.sale_amount_lamports = U64(1000000)
          /\ Percentages(arg.creator_splits) = <<50, 30, 20>>)
           => /\ ret.platform_fee = U64(100000)
              /\ ret.creator_amounts = <<U64(450000), U64(270000), U64(180000)>>
    /\ (arg.sale_amount_lamports = U64(2000000)
          /\ Percentages(arg.creator_splits) = <<50, 50>>)
           => ret.creator_amounts = <<U64(900000), U64(900000)>>

\* C18: exact distribution on round amounts.  For every validated schedule and
\* every sale amount whose remaining amount is a multiple of 100, the creator
\* amounts sum exactly to the remaining amount, and the platform fee computed as
\* sale_amount * 10 / 100 equals the fee the program computes with 1000 basis
\* points; sale 1000000 with [50, 30, 20] gives fee 100000 and amounts
\* [450000, 270000, 180000], sale 2000000 with [50, 50] gives 900000 each.
C18_ExactOnRoundAmounts ==
    applied =>
        /\ IsMultipleOf100(ret.remaining_amount)
               => SumWide(ret.creator_amounts) = AsU128(ret.remaining_amount)
        /\ AsU128(ret.platform_fee) = TenPercent(arg.sale_amount_lamports)
        /\ DistributionExamples

C18_Witness ==
    /\ applied
    /\ arg.sale_amount_lamports = U64(1000000)
    /\ Percentages(arg.creator_splits) = <<50, 30, 20>>
    /\ IsMultipleOf100(ret.remaining_amount)
    /\ ret.platform_fee = U64(100000)
    /\ ret.creator_amounts = <<U64(450000), U64(270000), U64(180000)>>

\* lamports the transfers issued so far by the request take from the buyer
TotalIssued ==
    SumSeq([k \in 1..Len(log) |-> IF log[k].ix = "transfer" THEN log[k].amount ELSE 0])

\* C19: the payer is never over-charged.  At every point of mint_collaborative_nft
\* the running total of the transfers issued from the buyer is at most
\* sale_amount_lamports (and the buyer's balance inside the request has dropped by
\* no more than that total); in mint_nft the only transfer is the platform fee, so
\* a completed mint_nft has charged floor(sale_amount_lamports / 10).
C19_NeverOverCharged ==
    /\ Collaborative =>
           /\ TotalIssued <= req.sale_amount_lamports
           /\ bal[Buyer] - wbal[Buyer] <= TotalIssued
           /\ Completed =>
                  /\ bal[Buyer] - wbal[Buyer] = TotalIssued
                  /\ TotalIssued >= PlatformFeeOf(req.sale_amount_lamports)
    /\ op = "mint_nft" =>
           /\ \A k \in Transfers : log[k].i = -1 /\ log[k].to = req.platform
           /\ Cardinality(Transfers) <= 1
           /\ TotalIssued <= req.sale_amount_lamports \div 10
           /\ Completed =>
                  /\ TotalIssued = req.sale_amount_lamports \div 10
                  /\ bal[Buyer] - wbal[Buyer] = req.sale_amount_lamports \div 10

\* a completed collaborative request that charged the whole sale amount
C19_Witness ==
    /\ Collaborative
    /\ Completed
    /\ req.sale_amount_lamports = 100
    /\ Cardinality(Transfers) = 3
    /\ TotalIssued = 100

\* C20: a one-share schedule can never be minted collaboratively.  Validation
\* rejects every share list of exactly one entry, whatever its percentage in
\* 0..255: with InvalidSplitPercentage when the percentage is not 100 and with
\* InvalidCreatorPercentage when it is 100.  Hence every share list that passes
\* validation, and so every collaborative mint that completes, has between 2 and
\* 10 creators.
C20_NoSingleShare ==
    applied =>
        /\ Count(arg) = 1 =>
               ret = IF PctOf(arg)[1] = 100 THEN "InvalidCreatorPercentage"
                     ELSE "InvalidSplitPercentage"
        /\ ret = "Ok" => Count(arg) >= 2 /\ Count(arg) <= 10

\* the one entry holding all 100 percent is rejected by the per-share range check
C20_Witness ==
    /\ applied
    /\ PctOf(arg) = <<100>>
    /\ ret = "InvalidCreatorPercentage"

====
